---- MODULE Spec2Model ----
(***************************************************************************)
(* Model of landlab/components/aquatic_habitat/aquatic_habitat.py:         *)
(* the AquaticHabitat component, its depth and velocity HSI lookups, the   *)
(* CSI placeholder and run_one_step.                                       *)
(*                                                                         *)
(* Lengths and speeds are fixed-point integers in units of 1/Scale, so the *)
(* depth 12.87 of the docstring example is 1287.  HSI values are exact     *)
(* rationals <<numerator, denominator>> in lowest terms; floating-point    *)
(* rounding is not modelled.                                               *)
(***************************************************************************)
EXTENDS Integers, Sequences, FiniteSets, TLC

VARIABLES
    at_node,   \* at_node[w]: the node fields of grid w (field name -> array)
    comp,      \* comp[w]: the attributes of the component built on grid w
    stdout,    \* stdout[w]: everything printed so far, one entry per print()
    hist,      \* hist[w]: the public calls made so far on component w
    calls,     \* calls[w]: the routines entered by the most recent public call
    raised,    \* raised[w]: the exception the most recent public call ended with
    ret,       \* ret[w]: the value the most recent public call returned
    HSI,       \* HSI[w]: the local HSI of the most recent run_one_step
    csi_arg,   \* csi_arg[w]: what find_CSI received in the most recent public call
    computed,  \* computed[w]: the array the most recent lookup computed
    printed    \* printed[w]: what the most recent public call printed

vars ==
    <<at_node, comp, stdout, hist, calls, raised, ret, HSI, csi_arg, computed,
      printed>>

----------------------------------------------------------------------------
(* Bounds *)

NumNodes == 2
MaxCalls == 1

(* Fixed-point unit: 1.0 is Scale. *)
Scale == 100

Nodes == 1..NumNodes

(* Depths on both sides of, on, and between the knots of the salmon curve. *)
Depths == {-100, 0, 300, 660, 1287, 1310, 5000, 100000, 100100}
(* Velocity arrays: still water, the uniform 2.57 of the docstring example,
   and a ramp. *)
Velocities ==
    {[i \in Nodes |-> 0], [i \in Nodes |-> 257], [i \in Nodes |-> 100 * i]}
PairDepths == {300, 1287, 100100}
Species == {"salmon", "trout"}
Methods == {"HSI", "CSI", "other"}
Dts == {1, 10}

----------------------------------------------------------------------------
(* Values *)

NoneVal == [kind |-> "None", arr |-> <<>>]
Unbound == [kind |-> "unbound", arr |-> <<>>]
ArrayVal(a) == [kind |-> "array", arr |-> a]

Text(s) == [kind |-> "text", text |-> s, arr |-> <<>>]
Arr(a) == [kind |-> "array", text |-> "", arr |-> a]

RECURSIVE GCD(_, _)
GCD(a, b) == IF b = 0 THEN a ELSE GCD(b, a % b)

Abs(n) == IF n < 0 THEN -n ELSE n

(* The rational n/d (d > 0) in lowest terms. *)
Rat(n, d) == LET g == GCD(Abs(n), d) IN <<n \div g, d \div g>>

RatLeq(p, q) == p[1] * q[2] <= q[1] * p[2]

zeros == [i \in Nodes |-> 0]

----------------------------------------------------------------------------
(* The component's declarations *)

_info ==
    [ surface_water__depth |->
          [intent |-> "in", optional |-> FALSE, mapping |-> "node"],
      surface_water__velocity |->
          [intent |-> "in", optional |-> FALSE, mapping |-> "node"],
      bed_surface__median_grain_size |->
          [intent |-> "in", optional |-> TRUE, mapping |-> "node"] ]

(* The fields declared with an output intent ("out" or "inout"). *)
output_var_names == {n \in DOMAIN _info : _info[n].intent \in {"out", "inout"}}

curve_depth == <<0, 660, 1310, 100000>>
curve_HSI == <<0, 0, 1, 1>>

----------------------------------------------------------------------------
(* interp1d(x, y, kind='linear') applied to the array x_new *)

(* Number of knots strictly below v: numpy.searchsorted(x, v). *)
searchsorted(x, v) == Cardinality({i \in 1..Len(x) : x[i] < v})

(* The value at v of the segment chosen by searchsorted, clipped to the
   first and last segment. *)
linear(x, y, v) ==
    LET s  == searchsorted(x, v)
        hi == (IF s < 1 THEN 1 ELSE IF s > Len(x) - 1 THEN Len(x) - 1 ELSE s) + 1
        lo == hi - 1
    IN Rat(y[lo] * (x[hi] - x[lo]) + (y[hi] - y[lo]) * (v - x[lo]), x[hi] - x[lo])

(* bounds_error defaults to True: a value outside [x[0], x[-1]] raises. *)
interp1d(x, y, x_new) ==
    IF \E i \in 1..Len(x_new) : x_new[i] < x[1] \/ x_new[i] > x[Len(x)]
    THEN [raised |-> "ValueError", value |-> <<>>]
    ELSE [raised |-> "none",
          value |-> [i \in 1..Len(x_new) |-> linear(x, y, x_new[i])]]

----------------------------------------------------------------------------
(* The routines, as functions of the grid fields g, the component's
   attributes self and their argument.  Each yields what it prints, the
   exception it ends with, the value it returns, the array it computed, and
   the grid fields and attributes it leaves behind. *)

Result(p, e, r, l, g, self) ==
    [printed |-> p, raised |-> e, ret |-> r, local |-> l, grid |-> g,
     self |-> self]

(* Variant: the lookup ends with `return depth_HSI`. *)
find_depth_HSI_returns(g, self, species) ==
    IF species = "salmon"
    THEN LET r == interp1d(curve_depth, curve_HSI, g["surface_water__depth"])
         IN IF r.raised # "none"
            THEN Result(<<>>, r.raised, Unbound, Unbound, g, self)
            ELSE Result(<<Text("The HSI for depth is:"), Arr(r.value)>>,
                        "none", ArrayVal(r.value), ArrayVal(r.value), g, self)
    ELSE Result(<<>>, "none", NoneVal, Unbound, g, self)

find_depth_HSI(g, self, species) ==
    IF species = "salmon"
    THEN LET r == interp1d(curve_depth, curve_HSI, g["surface_water__depth"])
             depth_HSI == r.value
         IN IF r.raised # "none"
            THEN Result(<<>>, r.raised, Unbound, Unbound, g, self)
            ELSE Result(<<Text("The HSI for depth is:"), Arr(depth_HSI)>>,
                        "none", NoneVal, ArrayVal(depth_HSI), g, self)
    ELSE Result(<<>>, "none", NoneVal, Unbound, g, self)

find_velocity_HSI(g, self, species) ==
    LET h == g["surface_water__depth"]
        v == g["surface_water__velocity"]
        hsi == [i \in 1..Len(h) |-> Rat(v[i] * h[i], Scale * Scale)]
    IN IF species = "salmon"
       THEN Result(<<Arr(hsi)>>, "none", NoneVal, ArrayVal(hsi), g, self)
       ELSE Result(<<Text("species not found")>>, "none", NoneVal, Unbound,
                   g, self)

(* Variant: the aggregation prints the array it is given. *)
find_CSI_uses_HSI(g, self, hsi) ==
    Result(IF hsi.kind = "array"
           THEN <<Text("you have chosen CSI method"), Arr(hsi.arr)>>
           ELSE <<Text("you have chosen CSI method")>>,
           "none", NoneVal, Unbound, g, self)

find_CSI(g, self, hsi) ==
    Result(<<Text("you have chosen CSI method")>>, "none", NoneVal, Unbound,
           g, self)

(* The rest of run_one_step once the lookup called `name` has yielded r: an
   exception propagates; otherwise its return value is bound to the local HSI
   and, for the method 'CSI', handed to find_CSI. *)
step_tail(name, r) ==
    IF r.raised # "none"
    THEN [printed |-> r.printed, raised |-> r.raised, ret |-> Unbound,
          local |-> r.local, grid |-> r.grid, self |-> r.self,
          calls |-> <<name>>, HSI |-> Unbound, csi_arg |-> Unbound]
    ELSE IF r.self.method = "CSI"
    THEN LET c == find_CSI(r.grid, r.self, r.ret)
         IN [printed |-> r.printed \o c.printed, raised |-> c.raised,
             ret |-> NoneVal, local |-> r.local, grid |-> c.grid,
             self |-> c.self, calls |-> <<name, "find_CSI">>, HSI |-> r.ret,
             csi_arg |-> r.ret]
    ELSE [printed |-> r.printed, raised |-> "none", ret |-> NoneVal,
          local |-> r.local, grid |-> r.grid, self |-> r.self,
          calls |-> <<name>>, HSI |-> r.ret, csi_arg |-> Unbound]

(* The grid g with the elevation field created or overwritten. *)
WithElevation(g, a) ==
    [f \in DOMAIN g \cup {"topographic__elevation"} |->
        IF f = "topographic__elevation" THEN a ELSE g[f]]

(* Variant: the step calls the velocity lookup. *)
run_one_step_velocity(g, self, dt) ==
    step_tail("find_velocity_HSI", find_velocity_HSI(g, self, self.species))

(* Variant: the method flag picks the lookup. *)
run_one_step_by_method(g, self, dt) ==
    IF self.method = "CSI"
    THEN step_tail("find_velocity_HSI",
                   find_velocity_HSI(g, self, self.species))
    ELSE step_tail("find_depth_HSI", find_depth_HSI(g, self, self.species))

(* Variant: the step writes the elevation field, as its docstring says. *)
run_one_step_erodes(g, self, dt) ==
    LET s == step_tail("find_depth_HSI", find_depth_HSI(g, self, self.species))
    IN [s EXCEPT !.grid = WithElevation(s.grid, [i \in Nodes |-> -dt])]

run_one_step(g, self, dt) ==
    LET species == self.species
    IN step_tail("find_depth_HSI", find_depth_HSI(g, self, species))

----------------------------------------------------------------------------
(* State after construction *)

Worlds == DOMAIN comp

(* __init__(grid, species, method): the two attributes and two zero arrays. *)
Component(species, method) ==
    [species |-> species, method |-> method, I |-> zeros, dzdt |-> zeros]

(* A grid carrying the two required input fields and, possibly, an elevation
   field some other component owns. *)
Grid(depth, velocity, withElevation) ==
    IF withElevation
    THEN [surface_water__depth |-> depth, surface_water__velocity |-> velocity,
          topographic__elevation |-> zeros]
    ELSE [surface_water__depth |-> depth, surface_water__velocity |-> velocity]

Fresh(W) ==
    /\ stdout = [w \in W |-> <<>>]
    /\ hist = [w \in W |-> <<>>]
    /\ calls = [w \in W |-> <<>>]
    /\ raised = [w \in W |-> "none"]
    /\ ret = [w \in W |-> Unbound]
    /\ HSI = [w \in W |-> Unbound]
    /\ csi_arg = [w \in W |-> Unbound]
    /\ computed = [w \in W |-> Unbound]
    /\ printed = [w \in W |-> <<>>]

(* One grid, one component. *)
Init ==
    /\ \E d \in [Nodes -> Depths], v \in Velocities, e \in BOOLEAN :
           at_node = [w \in {1} |-> Grid(d, v, e)]
    /\ \E s \in Species, m \in Methods :
           comp = [w \in {1} |-> Component(s, m)]
    /\ Fresh({1})

(* Two grids with the same depths, each with its own velocities, and on each a
   component of the same species. *)
InitPair ==
    /\ \E d \in [Nodes -> PairDepths], v \in [{1, 2} -> Velocities] :
           at_node = [w \in {1, 2} |-> Grid(d, v[w], FALSE)]
    /\ \E s \in Species, m \in [{1, 2} -> Methods] :
           comp = [w \in {1, 2} |-> Component(s, m[w])]
    /\ Fresh({1, 2})

----------------------------------------------------------------------------
(* Operations: one public call on component w *)

Call(op, arg) == [op |-> op, arg |-> arg]

Apply(w, op, arg, r) ==
    /\ Len(hist[w]) < MaxCalls
    /\ hist' = [hist EXCEPT ![w] = Append(@, Call(op, arg))]
    /\ stdout' = [stdout EXCEPT ![w] = @ \o r.printed]
    /\ printed' = [printed EXCEPT ![w] = r.printed]
    /\ raised' = [raised EXCEPT ![w] = r.raised]
    /\ ret' = [ret EXCEPT ![w] = r.ret]
    /\ computed' = [computed EXCEPT ![w] = r.local]
    /\ at_node' = [at_node EXCEPT ![w] = r.grid]
    /\ comp' = [comp EXCEPT ![w] = r.self]

RunOneStep(w, dt) ==
    LET r == run_one_step(at_node[w], comp[w], dt)
    IN /\ Apply(w, "run_one_step", dt, r)
       /\ calls' = [calls EXCEPT ![w] = r.calls]
       /\ HSI' = [HSI EXCEPT ![w] = r.HSI]
       /\ csi_arg' = [csi_arg EXCEPT ![w] = r.csi_arg]

CallFindDepthHSI(w, species) ==
    /\ Apply(w, "find_depth_HSI", species,
             find_depth_HSI(at_node[w], comp[w], species))
    /\ calls' = [calls EXCEPT ![w] = <<"find_depth_HSI">>]
    /\ csi_arg' = [csi_arg EXCEPT ![w] = Unbound]
    /\ UNCHANGED HSI

CallFindVelocityHSI(w, species) ==
    /\ Apply(w, "find_velocity_HSI", species,
             find_velocity_HSI(at_node[w], comp[w], species))
    /\ calls' = [calls EXCEPT ![w] = <<"find_velocity_HSI">>]
    /\ csi_arg' = [csi_arg EXCEPT ![w] = Unbound]
    /\ UNCHANGED HSI

CallFindCSI(w, hsi) ==
    /\ Apply(w, "find_CSI", hsi.kind, find_CSI(at_node[w], comp[w], hsi))
    /\ calls' = [calls EXCEPT ![w] = <<"find_CSI">>]
    /\ csi_arg' = [csi_arg EXCEPT ![w] = hsi]
    /\ UNCHANGED HSI

Next ==
    \/ \E w \in Worlds, dt \in Dts : RunOneStep(w, dt)
    \/ \E w \in Worlds, s \in Species : CallFindDepthHSI(w, s)
    \/ \E w \in Worlds, s \in Species : CallFindVelocityHSI(w, s)
    \/ \E w \in Worlds, h \in {NoneVal, ArrayVal(zeros)} : CallFindCSI(w, h)

NextPair == \E w \in Worlds, dt \in Dts : RunOneStep(w, dt)

Spec == Init /\ [][Next]_vars

SpecPair == InitPair /\ [][NextPair]_vars

----------------------------------------------------------------------------
(* Properties *)

Depth(w) == at_node[w]["surface_water__depth"]
Velocity(w) == at_node[w]["surface_water__velocity"]

Called(w) == Len(hist[w]) > 0
LastCall(w) == hist[w][Len(hist[w])]
Entered(w, name) == \E i \in 1..Len(calls[w]) : calls[w][i] = name

(* The species the most recent public call looked up, if it was a lookup. *)
DidLookup(w, names) == Called(w) /\ \E i \in 1..Len(calls[w]) : calls[w][i] \in names
LookupSpecies(w) ==
    IF LastCall(w).op = "run_one_step" THEN comp[w].species ELSE LastCall(w).arg

InRange(d) == 0 <= d /\ d <= 100000

(* The salmon curve in closed form. *)
Curve(d) ==
    IF d <= 660 THEN <<0, 1>>
    ELSE IF d <= 1310 THEN Rat(d - 660, 650)
    ELSE <<1, 1>>

Lookups(w) ==
    SelectSeq(calls[w], LAMBDA n : n \in {"find_depth_HSI", "find_velocity_HSI"})

Notice == Text("you have chosen CSI method")

(* C1: for species 'salmon', every node whose depth lies in [0, 1000] gets
   from find_depth_HSI the value of the curve at its own depth, whatever the
   other nodes hold, and the result has one value per node. *)
C1_DepthCurvePerNode ==
    \A w \in Worlds :
        (DidLookup(w, {"find_depth_HSI"}) /\ LookupSpecies(w) = "salmon")
        => \A i \in Nodes :
               InRange(Depth(w)[i])
               => /\ computed[w].kind = "array"
                  /\ Len(computed[w].arr) = NumNodes
                  /\ computed[w].arr[i] = Curve(Depth(w)[i])

(* The curve is met whenever the lookup completes: C1 fails only where the
   lookup raises. *)
DepthCurveWhenCompleted ==
    \A w \in Worlds :
        (DidLookup(w, {"find_depth_HSI"}) /\ LookupSpecies(w) = "salmon"
            /\ raised[w] = "none")
        => /\ computed[w].kind = "array"
           /\ Len(computed[w].arr) = NumNodes
           /\ \A i \in Nodes : computed[w].arr[i] = Curve(Depth(w)[i])

(* C2: for species 'salmon' the depth lookup, alone or within run_one_step,
   completes normally for depths outside [0, 1000], giving 0 below 0 and 1
   above 1000. *)
C2_ClampsAtEndpoints ==
    \A w \in Worlds :
        (DidLookup(w, {"find_depth_HSI"}) /\ LookupSpecies(w) = "salmon")
        => /\ raised[w] = "none"
           /\ computed[w].kind = "array"
           /\ \A i \in Nodes :
                  /\ Depth(w)[i] < 0 => computed[w].arr[i] = <<0, 1>>
                  /\ Depth(w)[i] > 100000 => computed[w].arr[i] = <<1, 1>>

(* C3: every element either lookup computes lies in [0, 1]. *)
C3_NormalizedScore ==
    \A w \in Worlds :
        computed[w].kind = "array"
        => \A i \in 1..Len(computed[w].arr) :
               /\ RatLeq(<<0, 1>>, computed[w].arr[i])
               /\ RatLeq(computed[w].arr[i], <<1, 1>>)

C5_MissingSpeciesPrinted ==
    \A w \in Worlds :
        (DidLookup(w, {"find_depth_HSI", "find_velocity_HSI"})
            /\ LookupSpecies(w) # "salmon")
        => /\ raised[w] = "none"
           /\ \E i \in 1..Len(printed[w]) :
                  printed[w][i] = Text("species not found")

(* C6 as stated: two components on the same grid that differ only in method
   run different lookup routines in their steps. *)
C6_MethodSelectsLookup ==
    (/\ Called(1) /\ Called(2)
     /\ at_node[1] = at_node[2]
     /\ comp[1].species = comp[2].species
     /\ comp[1].method # comp[2].method)
    => Lookups(1) # Lookups(2)

(* C6, amended: every step runs exactly one lookup routine, find_depth_HSI,
   whatever the method, so components that differ only in method run the same
   lookup; the method decides only whether find_CSI follows a lookup that
   returned. *)
C6_MethodSelectsOnlyCSI ==
    /\ \A w \in Worlds :
           Called(w)
           => /\ Lookups(w) = <<"find_depth_HSI">>
              /\ Entered(w, "find_CSI")
                     <=> (comp[w].method = "CSI" /\ raised[w] = "none")
    /\ (Called(1) /\ Called(2)) => Lookups(1) = Lookups(2)

C6_Witness ==
    /\ Called(1) /\ Called(2)
    /\ at_node[1] = at_node[2]
    /\ comp[1].species = "salmon"
    /\ comp[1].method = "HSI" /\ comp[2].method = "CSI"
    /\ raised[1] = "none" /\ raised[2] = "none"
    /\ Entered(2, "find_CSI") /\ ~Entered(1, "find_CSI")

(* C7: once run_one_step has run, the output variable names are exactly
   ('topographic__elevation',) and that field exists on the grid at nodes. *)
C7_OutputVarNames ==
    \A w \in Worlds :
        (Called(w) /\ LastCall(w).op = "run_one_step")
        => /\ output_var_names = {"topographic__elevation"}
           /\ "topographic__elevation" \in DOMAIN at_node[w]

(* C8: no run_one_step enters find_velocity_HSI, and two grids with the same
   depths but any velocities, under the same sequence of run_one_step calls on
   like components, show the same printed output and end in the same state
   (the velocity field itself apart). *)
C8_VelocityUnused ==
    /\ \A w \in Worlds :
           (Called(w) /\ LastCall(w).op = "run_one_step")
           => ~Entered(w, "find_velocity_HSI")
    /\ (/\ Depth(1) = Depth(2)
        /\ comp[1] = comp[2]
        /\ hist[1] = hist[2]
        /\ \A i \in 1..Len(hist[1]) : hist[1][i].op = "run_one_step")
       => /\ stdout[1] = stdout[2]
          /\ printed[1] = printed[2]
          /\ calls[1] = calls[2]
          /\ raised[1] = raised[2]
          /\ ret[1] = ret[2]
          /\ HSI[1] = HSI[2]
          /\ csi_arg[1] = csi_arg[2]
          /\ computed[1] = computed[2]
          /\ DOMAIN at_node[1] = DOMAIN at_node[2]
          /\ \A f \in DOMAIN at_node[1] \ {"surface_water__velocity"} :
                 at_node[1][f] = at_node[2][f]

C8_Witness ==
    /\ Depth(1) = Depth(2)
    /\ Velocity(1) # Velocity(2)
    /\ comp[1] = comp[2]
    /\ comp[1].species = "salmon"
    /\ hist[1] = hist[2]
    /\ Called(1)
    /\ raised[1] = "none"
    /\ Len(stdout[1]) > 0

(* C9: within run_one_step find_CSI is entered only for the method 'CSI';
   whatever its argument, find_CSI prints the one fixed notice and nothing
   else, returns None, raises nothing and leaves the grid fields and the
   component's attributes as they were. *)
C9_CSIDoesNothing ==
    [][\A w \in DOMAIN hist :
           (hist'[w] # hist[w])
           => LET op == hist'[w][Len(hist'[w])].op
              IN /\ (op = "find_CSI")
                     => /\ stdout'[w] = Append(stdout[w], Notice)
                        /\ ret'[w] = NoneVal
                        /\ raised'[w] = "none"
                        /\ at_node'[w] = at_node[w]
                        /\ comp'[w] = comp[w]
                 /\ (op = "run_one_step"
                        /\ \E i \in 1..Len(calls'[w]) : calls'[w][i] = "find_CSI")
                     => /\ comp[w].method = "CSI"
                        /\ Len(printed'[w]) > 0
                        /\ printed'[w][Len(printed'[w])] = Notice
                        /\ \A i \in 1..(Len(printed'[w]) - 1) :
                               printed'[w][i] # Notice
                        /\ at_node'[w] = at_node[w]
                        /\ comp'[w] = comp[w]]_vars

C9_Witness ==
    \E w \in Worlds :
        /\ Called(w) /\ LastCall(w).op = "find_CSI"
        /\ csi_arg[w].kind = "array"
        /\ printed[w] = <<Notice>>

(* C10: the array the depth lookup computes never reaches its caller:
   find_depth_HSI returns None whenever it returns, the local HSI of
   run_one_step is never the array and is None after every step that
   completes, and find_CSI within a step always receives None. *)
C10_ArrayNeverDelivered ==
    \A w \in Worlds :
        /\ HSI[w].kind # "array"
        /\ Called(w) =>
              /\ (LastCall(w).op = "find_depth_HSI" /\ raised[w] = "none")
                     => ret[w] = NoneVal
              /\ (LastCall(w).op = "run_one_step" /\ raised[w] = "none")
                     => HSI[w] = NoneVal
              /\ (LastCall(w).op = "run_one_step" /\ Entered(w, "find_CSI"))
                     => csi_arg[w] = NoneVal

C10_Witness ==
    \E w \in Worlds :
        /\ Called(w) /\ LastCall(w).op = "run_one_step"
        /\ comp[w].species = "salmon" /\ comp[w].method = "CSI"
        /\ computed[w].kind = "array"
        /\ Entered(w, "find_CSI")
        /\ csi_arg[w] = NoneVal

====
